---- MODULE Spec2Model ----
(***************************************************************************)
(* Model of osier/technology.py: the unit validator, the quantity          *)
(* validator and the Technology entity whose setters route through them.   *)
(*                                                                         *)
(* Magnitudes are exact rationals <<n, d>> (d > 0, lowest terms); the code *)
(* computes them in binary floating point.  A unit is what unyt compares:  *)
(* its dimensions (exponents of power and of time) and its base value.     *)
(* A string is the sequence of its lexical tokens.                         *)
(***************************************************************************)
EXTENDS Integers, Sequences, FiniteSets, TLC

\* Largest magnitude an input carries (numbers, quantities, strings).
MaxMag == 1

\* Longest sequence of assignments made to one Technology.
MaxAssign == 3

\* ------------------------------------------------------------ rationals
Abs(n) == IF n < 0 THEN -n ELSE n

RECURSIVE GCD(_, _)
GCD(a, b) == IF b = 0 THEN a ELSE GCD(b, a % b)

Rat(n, d) == LET g == GCD(Abs(n), d) IN <<n \div g, d \div g>>

RMul(a, b) == Rat(a[1] * b[1], a[2] * b[2])

\* b is a unit's base value, hence positive
RDiv(a, b) == Rat(a[1] * b[2], a[2] * b[1])

\* ---------------------------------------------------------------- units
\* unyt.unit_object.Unit: dimensions (pe: exponent of power, te: exponent
\* of time) and base_value (relative to kW and hr).
MkUnit(pe, te, bv) == [pe |-> pe, te |-> te, base_value |-> bv]

kW == MkUnit(1, 0, <<1, 1>>)

MW == MkUnit(1, 0, <<1000, 1>>)

hr == MkUnit(0, 1, <<1, 1>>)

day == MkUnit(0, 1, <<24, 1>>)

dimensionless == MkUnit(0, 0, <<1, 1>>)

\* Unit.__mul__
UnitMul(u, v) ==
    MkUnit(u.pe + v.pe, u.te + v.te, RMul(u.base_value, v.base_value))

\* Unit.__pow__ with exponent -1
UnitInv(u) == MkUnit(-u.pe, -u.te, RDiv(<<1, 1>>, u.base_value))

\* Unit.same_dimensions_as
same_dimensions_as(u, v) == u.pe = v.pe /\ u.te = v.te

\* ----------------------------------------------------------- exceptions
Exceptions ==
    {"KeyError", "AssertionError", "UnitParseError", "ValueError", "TypeError"}

\* --------------------------------------------------------- python values
\* Every value is a record of one shape; `type` says which fields count.
NoText == <<>>

PyNone == [type |-> "NoneType", num |-> <<0, 1>>, units |-> dimensionless,
           text |-> NoText]

PyUnit(u) == [type |-> "Unit", num |-> <<0, 1>>, units |-> u, text |-> NoText]

PyQuantity(v, u) ==
    [type |-> "unyt_quantity", num |-> v, units |-> u, text |-> NoText]

PyInt(n) == [type |-> "int", num |-> <<n, 1>>, units |-> dimensionless,
             text |-> NoText]

PyFloat(v) == [type |-> "float", num |-> v, units |-> dimensionless,
               text |-> NoText]

PyStr(s) == [type |-> "str", num |-> <<0, 1>>, units |-> dimensionless,
             text |-> s]

PyDict == [type |-> "dict", num |-> <<0, 1>>, units |-> dimensionless,
           text |-> NoText]

\* outcome of a call: the exception raised ("none" when it returns) and
\* the value returned
Return(v) == [raised |-> "none", ret |-> v]

Raise(e) == [raised |-> e, ret |-> PyNone]

\* unyt_quantity.to(units): UnitConversionError when dimensions differ
to(q, u) ==
    IF same_dimensions_as(q.units, u)
    THEN Return(PyQuantity(RDiv(RMul(q.num, q.units.base_value), u.base_value), u))
    ELSE Raise("UnitConversionError")

\* number * Unit
NumTimesUnit(v, u) == PyQuantity(v, u)

\* --------------------------------------------------------------- strings
\* A string is the sequence of its tokens: a numeric literal, a unit
\* symbol, an exponent "**k", "*", "/", "(" or ")".
Tok(kind, n, name) == [tok |-> kind, n |-> n, name |-> name]

Num(n) == Tok("num", n, "")

Sym(name) == Tok("sym", 0, name)

Pow(k) == Tok("pow", k, "")

Star == Tok("*", 0, "")

Slash == Tok("/", 0, "")

LParen == Tok("(", 0, "")

RParen == Tok(")", 0, "")

\* the unit symbols the unit registry knows
UnitSymbols == [s \in {"kW", "MW", "hr", "day"} |->
                  CASE s = "kW" -> kW [] s = "MW" -> MW
                    [] s = "hr" -> hr [] s = "day" -> day]

SubSeqFrom(s, i) == SubSeq(s, i, Len(s))

\* float(str): succeeds exactly on a numeric literal
float(s) ==
    IF Len(s) = 1 /\ s[1].tok = "num"
    THEN Return(PyFloat(<<s[1].n, 1>>))
    ELSE Raise("ValueError")

\* unyt's unit pattern: one or more of (symbol, then optionally an
\* exponent or "*" or "/")
RECURSIVE IsUnitExpr(_)
IsUnitExpr(s) ==
    /\ Len(s) >= 1
    /\ s[1].tok = "sym"
    /\ \/ Len(s) = 1
       \/ /\ s[2].tok \in {"pow", "*", "/"}
          /\ (Len(s) = 2 \/ IsUnitExpr(SubSeqFrom(s, 3)))

\* the unit a symbol and the exponent after it (0: none) stand for
Factor(sym, k) == IF k = -1 THEN UnitInv(sym) ELSE sym

\* acc times, or divided by, fac
Apply(acc, fac, inv) == UnitMul(acc, IF inv THEN UnitInv(fac) ELSE fac)

\* the value of a unit expression whose symbols are all known; inv says
\* the factor at the head of s divides
RECURSIVE UnitValue(_, _, _)
UnitValue(s, acc, inv) ==
    IF Len(s) = 0 THEN acc
    ELSE IF Len(s) >= 2 /\ s[2].tok = "pow"
    THEN UnitValue(SubSeqFrom(s, 3),
                   Apply(acc, Factor(UnitSymbols[s[1].name], s[2].n), inv),
                   FALSE)
    ELSE UnitValue(SubSeqFrom(s, IF Len(s) >= 2 /\ s[2].tok \in {"*", "/"} THEN 3 ELSE 2),
                   Apply(acc, UnitSymbols[s[1].name], inv),
                   Len(s) >= 2 /\ s[2].tok = "/")

\* Unit(text): UnitParseError when the text names no known unit
ParseUnit(s) ==
    IF /\ \A i \in 1..Len(s) : s[i].tok = "sym" => s[i].name \in DOMAIN UnitSymbols
       /\ s[Len(s)].tok \in {"sym", "pow"}
    THEN Return(PyUnit(UnitValue(s, dimensionless, FALSE)))
    ELSE Raise("UnitParseError")

\* float(num) * Unit(unit), the exception of Unit(unit) passing through
NumTimesParsed(v, u) ==
    IF u.raised = "none" THEN Return(NumTimesUnit(v, u.ret.units)) ELSE u

\* unyt_quantity.from_string: a number, a unit, or a number followed by a
\* unit; anything else is "invalid quantity expression" (ValueError)
from_string(s) ==
    IF Len(s) = 1 /\ s[1].tok = "num"
    THEN Return(NumTimesUnit(<<s[1].n, 1>>, dimensionless))
    ELSE IF IsUnitExpr(s)
    THEN NumTimesParsed(<<1, 1>>, ParseUnit(s))
    ELSE IF Len(s) >= 2 /\ s[1].tok = "num" /\ IsUnitExpr(SubSeqFrom(s, 2))
    THEN NumTimesParsed(<<s[1].n, 1>>, ParseUnit(SubSeqFrom(s, 2)))
    ELSE Raise("ValueError")

\* ----------------------------------------------------------- validators
_dim_opts == [d \in {"time", "power", "energy", "spec_power", "spec_energy"} |->
                CASE d = "time" -> hr
                  [] d = "power" -> MW
                  [] d = "energy" -> UnitMul(MW, hr)
                  [] d = "spec_power" -> UnitInv(MW)
                  [] d = "spec_energy" -> UnitInv(UnitMul(MW, hr))]

\* a handler that reports every failure of the parse as UnitParseError
UnitFromString_catch_all(parsed, exp_dim) ==
    IF parsed.raised # "none" THEN Raise("UnitParseError")
    ELSE IF same_dimensions_as(parsed.ret.units, exp_dim)
    THEN Return(PyUnit(parsed.ret.units))
    ELSE Raise("AssertionError")

\* try: unit = from_string(value).units; assert same_dimensions_as;
\* except UnitParseError / AssertionError: re-raised as the same kind;
\* any other exception of from_string propagates
UnitFromString(parsed, exp_dim) ==
    IF parsed.raised # "none" THEN Raise(parsed.raised)
    ELSE IF same_dimensions_as(parsed.ret.units, exp_dim)
    THEN Return(PyUnit(parsed.ret.units))
    ELSE Raise("AssertionError")

\* a validator that hands back the reference unit for a compatible Unit
UnitOfDimension_normalised(value, exp_dim) ==
    IF value.type = "Unit"
    THEN IF same_dimensions_as(value.units, exp_dim)
         THEN Return(PyUnit(exp_dim)) ELSE Raise("AssertionError")
    ELSE IF value.type = "str"
    THEN UnitFromString(from_string(value.text), exp_dim)
    ELSE Raise("ValueError")

UnitOfDimension(value, exp_dim) ==
    IF value.type = "Unit"
    THEN IF same_dimensions_as(value.units, exp_dim)
         THEN Return(value) ELSE Raise("AssertionError")
    ELSE IF value.type = "str"
    THEN UnitFromString(from_string(value.text), exp_dim)
    ELSE Raise("ValueError")

\* a validator that looks at the value's type before the dimension tag
_validate_unit_type_first(value, dimension) ==
    IF value.type \notin {"Unit", "str"} THEN Raise("ValueError")
    ELSE IF dimension \notin DOMAIN _dim_opts THEN Raise("KeyError")
    ELSE UnitOfDimension(value, _dim_opts[dimension])

_validate_unit(value, dimension) ==
    IF dimension \notin DOMAIN _dim_opts THEN Raise("KeyError")
    ELSE UnitOfDimension(value, _dim_opts[dimension])

\* a conversion whose failure is reported as the assertion's kind
ConvertOrAssertionError(conv) ==
    IF conv.raised = "UnitConversionError" THEN Raise("AssertionError") ELSE conv

\* try: value.to(exp_dim); except UnitConversionError: raise TypeError
ConvertOrTypeError(conv) ==
    IF conv.raised = "UnitConversionError" THEN Raise("TypeError") ELSE conv

\* try: unyt_value = from_string(value); assert same_dimensions_as;
\* except UnitParseError / AssertionError: re-raised as the same kind;
\* any other exception of from_string propagates
QuantityFromString(unyt_value, exp_dim) ==
    IF unyt_value.raised # "none" THEN Raise(unyt_value.raised)
    ELSE IF same_dimensions_as(unyt_value.ret.units, exp_dim)
    THEN unyt_value
    ELSE Raise("AssertionError")

\* a string branch that parses the unit string first
StrQuantity_unit_first(num, text, exp_dim) ==
    QuantityFromString(from_string(text), exp_dim)

\* try: float(value) * exp_dim; except ValueError: the unit-string parse
StrQuantity(num, text, exp_dim) ==
    IF num.raised = "none"
    THEN Return(NumTimesUnit(num.ret.num, exp_dim))
    ELSE QuantityFromString(from_string(text), exp_dim)

\* a validator that takes a number to be in kW and converts it
QuantityOfDimension_int_in_kW(value, exp_dim) ==
    IF value.type = "unyt_quantity"
    THEN ConvertOrTypeError(to(value, exp_dim))
    ELSE IF value.type = "float"
    THEN Return(NumTimesUnit(value.num, exp_dim))
    ELSE IF value.type = "int"
    THEN Return(NumTimesUnit(RDiv(value.num, exp_dim.base_value), exp_dim))
    ELSE IF value.type = "str"
    THEN StrQuantity(float(value.text), value.text, exp_dim)
    ELSE Raise("ValueError")

QuantityOfDimension(value, exp_dim) ==
    IF value.type = "unyt_quantity"
    THEN ConvertOrTypeError(to(value, exp_dim))
    ELSE IF value.type \in {"float", "int"}
    THEN Return(NumTimesUnit(value.num, exp_dim))
    ELSE IF value.type = "str"
    THEN StrQuantity(float(value.text), value.text, exp_dim)
    ELSE Raise("ValueError")

_validate_quantity(value, dimension) ==
    IF dimension \notin DOMAIN _dim_opts THEN Raise("KeyError")
    ELSE QuantityOfDimension(value, _dim_opts[dimension])

\* ---------------------------------------------------------------- inputs
Mags == 0..MaxMag

PowerSymbols == {"kW", "MW"}

TimeSymbols == {"hr", "day"}

UnknownSymbols == {"fortnights", "darkmatter"}

UnitInputs ==
    {kW, MW, hr, day, dimensionless,
     UnitMul(MW, hr), UnitMul(kW, day),
     UnitInv(kW), UnitInv(MW),
     UnitInv(UnitMul(MW, hr)), UnitInv(UnitMul(kW, day))}

\* unit texts: "MW", "darkmatter", "MW*hr", "MW**-1", "(MW*hr)**-1"
UnitTexts ==
    {<<Sym(x)>> : x \in PowerSymbols \cup TimeSymbols \cup UnknownSymbols}
    \cup {<<Sym(p), Star, Sym(t)>> : p \in PowerSymbols, t \in TimeSymbols}
    \cup {<<Sym(p), Pow(-1)>> : p \in PowerSymbols \cup UnknownSymbols}
    \cup {<<LParen, Sym("MW"), Star, Sym("hr"), RParen, Pow(-1)>>}

\* the strings: unit texts alone, bare numbers "10", and numbers with a
\* text after them: "10 MW", "10 fortnights", "10 (MW*hr)**-1", "10 / MW"
StrInputs(texts, qtexts, mags) ==
    texts
    \cup {<<Num(n)>> : n \in mags}
    \cup {<<Num(n)>> \o u : n \in mags, u \in qtexts}

ValuesOver(units, qunits, texts, qtexts, mags) ==
    {PyUnit(u) : u \in units}
    \cup {PyQuantity(<<n, 1>>, u) : n \in mags, u \in qunits}
    \cup {PyInt(n) : n \in mags}
    \cup {PyFloat(<<n, 1>>) : n \in mags} \cup {PyFloat(<<1, 2>>)}
    \cup {PyStr(s) : s \in StrInputs(texts, qtexts, mags)}
    \cup {PyDict}

\* the values handed to the validators directly
Values ==
    ValuesOver(UnitInputs, UnitInputs, UnitTexts,
               UnitTexts \cup {<<Slash, Sym("MW")>>}, Mags)

\* the values assigned to a Technology's attributes
AssignedValues ==
    ValuesOver({kW, MW, hr, day},
               {kW, UnitInv(kW), UnitInv(UnitMul(kW, day))},
               {<<Sym("kW")>>, <<Sym("day")>>, <<Sym("darkmatter")>>},
               {<<Sym("kW")>>, <<Sym("fortnights")>>, <<Sym("kW"), Pow(-1)>>,
                <<LParen, Sym("MW"), Star, Sym("hr"), RParen, Pow(-1)>>},
               Mags \ {0})

Dimensions == DOMAIN _dim_opts \cup {"fuel"}

\* ----------------------------------------------------------------- state
VARIABLES
    self,   \* the Technology's private fields
    last,   \* the latest assignment: attribute, exception raised, and
            \* how many assignments were made so far
    call    \* a direct call of a validator: arguments and outcome

vars == <<self, last, call>>

\* ------------------------------------------------------------ Technology
\* the property getters
unit_power(t) == t._unit_power

unit_time(t) == t._unit_time

\* a getter that reports the field the setter wrote
unit_energy_stored(t) == t._unit_energy

unit_energy(t) == UnitMul(t._unit_power, t._unit_time)

\* a getter that relabels the stored magnitude with the display unit
capacity_relabelled(t) == Return(PyQuantity(t._capacity.num, t._unit_power))

\* a getter that reports the quantity as stored
capacity_as_stored(t) == Return(t._capacity)

capacity(t) == to(t._capacity, t._unit_power)

capital_cost(t) == to(t._capital_cost, UnitInv(t._unit_power))

om_cost_fixed(t) == to(t._om_cost_fixed, UnitInv(t._unit_power))

om_cost_variable(t) == to(t._om_cost_variable, UnitInv(unit_energy(t)))

fuel_cost(t) == to(t._fuel_cost, UnitInv(unit_energy(t)))

\* the property setters: the fields after the assignment and the
\* exception it raised
Done(t) == [obj |-> t, raised |-> "none"]

Failed(t, e) == [obj |-> t, raised |-> e]

\* an assignment that writes the field before the failure surfaces
StoreThenFail(t, field, r) ==
    IF r.raised # "none" THEN Failed([t EXCEPT ![field] = r.ret], r.raised)
    ELSE Done([t EXCEPT ![field] = r.ret])

\* self.<field> = <validated>: nothing is stored when the right-hand
\* side raised
Store(t, field, r) ==
    IF r.raised # "none" THEN Failed(t, r.raised)
    ELSE Done([t EXCEPT ![field] = r.ret])

StoreUnit(t, field, r) ==
    IF r.raised # "none" THEN Failed(t, r.raised)
    ELSE Done([t EXCEPT ![field] = r.ret.units])

\* valid_quantity.to(units), reached only when validation returned
ThenTo(valid_quantity, u) ==
    IF valid_quantity.raised # "none" THEN valid_quantity
    ELSE to(valid_quantity.ret, u)

set_unit_power(t, value) ==
    StoreUnit(t, "_unit_power", _validate_unit(value, "power"))

set_unit_time(t, value) ==
    StoreUnit(t, "_unit_time", _validate_unit(value, "time"))

set_unit_energy(t, value) ==
    Done([t EXCEPT !._unit_energy = UnitMul(t._unit_power, t._unit_time)])

set_capacity(t, value) ==
    Store(t, "_capacity",
          ThenTo(_validate_quantity(value, "power"), t._unit_power))

\* a setter that converts to the display unit before it stores
set_capital_cost_converting(t, value) ==
    Store(t, "_capital_cost",
          ThenTo(_validate_quantity(value, "spec_power"), UnitInv(t._unit_power)))

set_capital_cost(t, value) ==
    Store(t, "_capital_cost", _validate_quantity(value, "spec_power"))

set_om_cost_fixed(t, value) ==
    Store(t, "_om_cost_fixed", _validate_quantity(value, "spec_power"))

set_om_cost_variable(t, value) ==
    Store(t, "_om_cost_variable", _validate_quantity(value, "spec_energy"))

set_fuel_cost(t, value) ==
    Store(t, "_fuel_cost", _validate_quantity(value, "spec_energy"))

\* the object before __init__ has assigned anything
Blank == [_unit_power |-> dimensionless, _unit_time |-> dimensionless,
          _unit_energy |-> dimensionless,
          _capacity |-> PyNone, _capital_cost |-> PyNone,
          _om_cost_fixed |-> PyNone, _om_cost_variable |-> PyNone,
          _fuel_cost |-> PyNone]

\* attribute assignment, by name
setattr(t, name, value) ==
    CASE name = "unit_power" -> set_unit_power(t, value)
      [] name = "unit_time" -> set_unit_time(t, value)
      [] name = "unit_energy" -> set_unit_energy(t, value)
      [] name = "capacity" -> set_capacity(t, value)
      [] name = "capital_cost" -> set_capital_cost(t, value)
      [] name = "om_cost_fixed" -> set_om_cost_fixed(t, value)
      [] name = "om_cost_variable" -> set_om_cost_variable(t, value)
      [] name = "fuel_cost" -> set_fuel_cost(t, value)

\* the assignments of __init__, in order, with the default arguments
DefaultArgs ==
    << <<"unit_power", PyUnit(MW)>>, <<"unit_time", PyUnit(hr)>>,
       <<"unit_energy", PyNone>>,
       <<"capacity", PyFloat(<<0, 1>>)>>,
       <<"capital_cost", PyFloat(<<0, 1>>)>>,
       <<"om_cost_fixed", PyFloat(<<0, 1>>)>>,
       <<"om_cost_variable", PyFloat(<<0, 1>>)>>,
       <<"fuel_cost", PyFloat(<<0, 1>>)>> >>

RECURSIVE Construct(_, _)
Construct(t, args) ==
    IF Len(args) = 0 THEN t
    ELSE Construct(setattr(t, args[1][1], args[1][2]).obj, Tail(args))

__init__ == Construct(Blank, DefaultArgs)

NoCall == [fn |-> "none", value |-> PyNone, dimension |-> "none",
           result |-> Return(PyNone)]

Constructed == [op |-> "__init__", raised |-> "none", n |-> 0]

Init ==
    /\ self = __init__
    /\ last = Constructed
    /\ call = NoCall

Assign(op, r) ==
    /\ last.n < MaxAssign
    /\ self' = r.obj
    /\ last' = [op |-> op, raised |-> r.raised, n |-> last.n + 1]
    /\ UNCHANGED call

SetUnitPower ==
    \E v \in AssignedValues : Assign("unit_power", set_unit_power(self, v))

SetUnitTime ==
    \E v \in AssignedValues : Assign("unit_time", set_unit_time(self, v))

SetUnitEnergy ==
    \E v \in AssignedValues : Assign("unit_energy", set_unit_energy(self, v))

SetCapacity ==
    \E v \in AssignedValues : Assign("capacity", set_capacity(self, v))

SetCapitalCost ==
    \E v \in AssignedValues : Assign("capital_cost", set_capital_cost(self, v))

SetOmCostFixed ==
    \E v \in AssignedValues : Assign("om_cost_fixed", set_om_cost_fixed(self, v))

SetOmCostVariable ==
    \E v \in AssignedValues : Assign("om_cost_variable", set_om_cost_variable(self, v))

SetFuelCost ==
    \E v \in AssignedValues : Assign("fuel_cost", set_fuel_cost(self, v))

Next ==
    \/ SetUnitPower
    \/ SetUnitTime
    \/ SetUnitEnergy
    \/ SetCapacity
    \/ SetCapitalCost
    \/ SetOmCostFixed
    \/ SetOmCostVariable
    \/ SetFuelCost

Spec == Init /\ [][Next]_vars

\* ------------------------------------------- the validators on their own
InitValidate ==
    /\ self = __init__
    /\ last = Constructed
    /\ \E v \in Values, d \in Dimensions :
         call = [fn |-> "none", value |-> v, dimension |-> d,
                 result |-> Return(PyNone)]

ValidateUnit ==
    /\ call.fn = "none"
    /\ call' = [call EXCEPT !.fn = "_validate_unit",
                            !.result = _validate_unit(call.value, call.dimension)]
    /\ UNCHANGED <<self, last>>

ValidateQuantity ==
    /\ call.fn = "none"
    /\ call' = [call EXCEPT !.fn = "_validate_quantity",
                            !.result = _validate_quantity(call.value, call.dimension)]
    /\ UNCHANGED <<self, last>>

NextValidate == ValidateUnit \/ ValidateQuantity

SpecValidate == InitValidate /\ [][NextValidate]_vars

\* -------------------------- one assignment, with its validator call kept
\* Technology(name, default_power_units = p, default_time_units = t)
ConstructorArgs(p, t) ==
    [DefaultArgs EXCEPT ![1] = <<"unit_power", PyUnit(p)>>,
                        ![2] = <<"unit_time", PyUnit(t)>>]

InitStore ==
    /\ \E p \in {MW, kW}, t \in {hr, day} :
         self = Construct(Blank, ConstructorArgs(p, t))
    /\ last = Constructed
    /\ call = NoCall

\* the assignment, and the call of the quantity validator it makes
Record(op, r, value, dimension) ==
    /\ call.fn = "none"
    /\ self' = r.obj
    /\ last' = [op |-> op, raised |-> r.raised, n |-> last.n + 1]
    /\ call' = [fn |-> "_validate_quantity", value |-> value,
                dimension |-> dimension,
                result |-> _validate_quantity(value, dimension)]

StoreCapacity ==
    \E v \in AssignedValues :
        Record("capacity", set_capacity(self, v), v, "power")

StoreCapitalCost ==
    \E v \in AssignedValues :
        Record("capital_cost", set_capital_cost(self, v), v, "spec_power")

StoreOmCostFixed ==
    \E v \in AssignedValues :
        Record("om_cost_fixed", set_om_cost_fixed(self, v), v, "spec_power")

StoreOmCostVariable ==
    \E v \in AssignedValues :
        Record("om_cost_variable", set_om_cost_variable(self, v), v, "spec_energy")

StoreFuelCost ==
    \E v \in AssignedValues :
        Record("fuel_cost", set_fuel_cost(self, v), v, "spec_energy")

NextStore ==
    \/ StoreCapacity
    \/ StoreCapitalCost
    \/ StoreOmCostFixed
    \/ StoreOmCostVariable
    \/ StoreFuelCost

SpecStore == InitStore /\ [][NextStore]_vars

\* ================================================== claims: Technology
\* every attribute read, in getter order
Reads(t) ==
    <<unit_power(t), unit_time(t), unit_energy(t), capacity(t),
      capital_cost(t), om_cost_fixed(t), om_cost_variable(t), fuel_cost(t)>>

\* the stored quantities
Stored(t) ==
    <<t._capacity, t._capital_cost, t._om_cost_fixed, t._om_cost_variable,
      t._fuel_cost>>

\* the physical magnitude of a read: its value in the base units
Physical(r) == RMul(r.ret.num, r.ret.units.base_value)

\* the physical magnitudes of the five quantity reads
PhysicalReads(t) ==
    <<Physical(capacity(t)), Physical(capital_cost(t)),
      Physical(om_cost_fixed(t)), Physical(om_cost_variable(t)),
      Physical(fuel_cost(t))>>

\* the step is an assignment to attribute op
Assigned(op) == last'.n = last.n + 1 /\ last'.op = op

\* C1: after any sequence of assignments, successful or rejected, every
\* read succeeds and reports capacity in the current unit_power,
\* capital_cost and om_cost_fixed in its inverse, and om_cost_variable and
\* fuel_cost in the inverse of (current unit_power * current unit_time).
C1_ReadsInCurrentUnits ==
    /\ \A r \in {capacity(self), capital_cost(self), om_cost_fixed(self),
                 om_cost_variable(self), fuel_cost(self)} : r.raised = "none"
    /\ capacity(self).ret.units = self._unit_power
    /\ capital_cost(self).ret.units = UnitInv(self._unit_power)
    /\ om_cost_fixed(self).ret.units = UnitInv(self._unit_power)
    /\ om_cost_variable(self).ret.units =
         UnitInv(UnitMul(self._unit_power, self._unit_time))
    /\ fuel_cost(self).ret.units =
         UnitInv(UnitMul(self._unit_power, self._unit_time))

\* a nonzero capacity and a cost are stored in units that are no longer
\* the display units, and the latest assignment was rejected
C1_Witness ==
    /\ self._capacity.num # <<0, 1>>
    /\ self._capacity.units # self._unit_power
    /\ self._om_cost_variable.units #
         UnitInv(UnitMul(self._unit_power, self._unit_time))
    /\ last.raised # "none"

\* C2: a rejected assignment changes nothing: whatever the attribute and
\* whatever the error, every field after the failure equals the field
\* before it, hence so does every read.
C2_RejectedChangesNothing ==
    [][last'.n = last.n + 1 /\ last'.raised # "none"
         => self' = self]_vars

\* an assignment was rejected on an entity that had been changed since
\* its construction
C2_Witness ==
    /\ last.raised # "none"
    /\ self._unit_power # MW
    /\ self._capacity.num # <<0, 1>>

\* C3: unit_energy read is exactly current unit_power * current unit_time,
\* whatever was assigned before; an assignment to unit_energy of any value
\* is accepted without error and changes no read of any attribute.
C3_UnitEnergyDerived ==
    /\ [](unit_energy(self) = UnitMul(self._unit_power, self._unit_time))
    /\ [][Assigned("unit_energy")
            => last'.raised = "none" /\ Reads(self') = Reads(self)]_vars

\* unit_energy was assigned after the display units had changed: the
\* field the setter writes differs from the one written at construction
C3_Witness ==
    /\ last.op = "unit_energy"
    /\ self._unit_energy # UnitMul(MW, hr)
    /\ unit_energy(self) = UnitMul(kW, day)

\* C4: a successful assignment to unit_power or unit_time leaves every
\* stored quantity unchanged, and each of the five reads keeps its
\* physical magnitude.
C4_UnitChangeKeepsMagnitude ==
    [][(Assigned("unit_power") \/ Assigned("unit_time")) /\ last'.raised = "none"
         => /\ Stored(self') = Stored(self)
            /\ PhysicalReads(self') = PhysicalReads(self)]_vars

\* capacity 1 MW, then unit_power = kW: capacity reads 1000 kW
C4_Witness ==
    /\ last.op = "unit_power"
    /\ last.raised = "none"
    /\ self._capacity = PyQuantity(<<1, 1>>, MW)
    /\ capacity(self).ret = PyQuantity(<<1000, 1>>, kW)

\* ================================================== claims: validators
\* the error kinds of the specification, as the exceptions of the code
UnknownDimension == "KeyError"

InvalidInputType == "ValueError"

\* the kind the unit validator and the string branches raise; a Quantity
\* of the wrong dimension raises TypeError instead
DimensionMismatch == "AssertionError"

\* a validator was called with one of the five dimension tags
Called(fn) == call.fn = fn /\ call.dimension \in DOMAIN _dim_opts

\* the exponents of power and of time each dimension tag stands for
DimensionOf(d) ==
    CASE d = "time" -> <<0, 1>>
      [] d = "power" -> <<1, 0>>
      [] d = "energy" -> <<1, 1>>
      [] d = "spec_power" -> <<-1, 0>>
      [] d = "spec_energy" -> <<-1, -1>>

\* hour, megawatt, megawatt-hour, per-megawatt, per-megawatt-hour
ReferenceUnit(d) ==
    CASE d = "time" -> MkUnit(0, 1, <<1, 1>>)
      [] d = "power" -> MkUnit(1, 0, <<1000, 1>>)
      [] d = "energy" -> MkUnit(1, 1, <<1000, 1>>)
      [] d = "spec_power" -> MkUnit(-1, 0, <<1, 1000>>)
      [] d = "spec_energy" -> MkUnit(-1, -1, <<1, 1000>>)

Compatible(u, d) == <<u.pe, u.te>> = DimensionOf(d)

\* the string is a bare number
BareNumber(s) == Len(s) = 1 /\ s[1].tok = "num"

\* the string has the form of a unit expression, with or without a
\* number before it
WellFormed(s) ==
    \/ IsUnitExpr(s)
    \/ Len(s) >= 2 /\ s[1].tok = "num" /\ IsUnitExpr(SubSeqFrom(s, 2))

\* the unit library cannot parse the string
Unparsable(s) == from_string(s).raised # "none"

\* a validator was handed a string the unit library cannot parse (and,
\* for the quantity validator, that is no bare number)
UnparsableCall ==
    /\ Called("_validate_unit") \/ Called("_validate_quantity")
    /\ call.value.type = "str"
    /\ ~BareNumber(call.value.text)
    /\ Unparsable(call.value.text)

\* C5 as stated: a string the unit library cannot parse always fails with
\* UnitParseError, in both validators, "10 (MW*hr)**-1" included.
C5_Original == UnparsableCall => call.result.raised = "UnitParseError"

\* C5 amended: a string the unit library cannot parse always fails, with
\* UnitParseError when it has the form of a unit expression naming an
\* unknown unit ("10 fortnights", "darkmatter") and with ValueError when
\* it is no valid quantity expression ("10 (MW*hr)**-1", "10 / MW").
C5_UnparsableStringFails ==
    UnparsableCall =>
        call.result.raised =
            IF WellFormed(call.value.text) THEN "UnitParseError" ELSE "ValueError"

\* "10 (MW*hr)**-1" given to the quantity validator for spec_energy
C5_Witness ==
    /\ Called("_validate_quantity")
    /\ call.dimension = "spec_energy"
    /\ call.value.text = <<Num(1), LParen, Sym("MW"), Star, Sym("hr"), RParen, Pow(-1)>>
    /\ call.result.raised = "ValueError"

\* the quantity validator was handed a value of the wrong dimension: a
\* Quantity, or a string that parses as a unit-bearing expression
IncompatibleQuantity ==
    /\ Called("_validate_quantity")
    /\ call.value.type = "unyt_quantity"
    /\ ~Compatible(call.value.units, call.dimension)

IncompatibleString ==
    /\ Called("_validate_quantity")
    /\ call.value.type = "str"
    /\ ~BareNumber(call.value.text)
    /\ ~Unparsable(call.value.text)
    /\ ~Compatible(from_string(call.value.text).ret.units, call.dimension)

\* C6 as stated: a dimensionally incompatible value is rejected with the
\* one kind DimensionMismatch, the same for a Quantity and for a string.
C6_Original ==
    IncompatibleQuantity \/ IncompatibleString
        => call.result.raised = DimensionMismatch

\* C6 amended: the quantity validator rejects a dimensionally incompatible
\* Quantity with TypeError and a dimensionally incompatible well-formed
\* string with AssertionError; both kinds are distinct from UnitParseError,
\* UnknownDimension (KeyError) and InvalidInputType (ValueError).
C6_IncompatibleRejected ==
    /\ IncompatibleQuantity => call.result.raised = "TypeError"
    /\ IncompatibleString => call.result.raised = "AssertionError"
    /\ IncompatibleQuantity \/ IncompatibleString
         => call.result.raised
              \notin {"none", "UnitParseError", UnknownDimension, InvalidInputType}

\* 1 MW given as a Quantity where energy is expected
C6_Witness ==
    /\ IncompatibleQuantity
    /\ call.value = PyQuantity(<<1, 1>>, MW)
    /\ call.dimension = "energy"
    /\ call.result.raised = "TypeError"

\* C7: a dimension tag outside the five makes both validators fail with
\* UnknownDimension for every value, before any other error.
C7_UnknownDimensionFirst ==
    call.fn # "none" /\ call.dimension \notin
        {"time", "power", "energy", "spec_power", "spec_energy"}
        => call.result.raised = UnknownDimension

\* "fuel" with a value of an unaccepted type, in the unit validator
C7_Witness ==
    /\ call.fn = "_validate_unit"
    /\ call.dimension = "fuel"
    /\ call.value = PyDict
    /\ call.result.raised = UnknownDimension

\* C8: for each of the five dimensions and every plain number n, integer
\* or floating-point, the quantity validator returns n in the dimension's
\* reference unit.
C8_NumberInReferenceUnit ==
    Called("_validate_quantity") /\ call.value.type \in {"int", "float"}
        => call.result =
             Return(PyQuantity(call.value.num, ReferenceUnit(call.dimension)))

\* the float 0.5 for spec_energy
C8_Witness ==
    /\ Called("_validate_quantity")
    /\ call.value = PyFloat(<<1, 2>>)
    /\ call.dimension = "spec_energy"
    /\ call.result.raised = "none"

\* C9: for a string, a bare number comes back as that number in the
\* reference unit, the unit-string parse not being tried; any other
\* string is parsed as a unit-bearing expression and, when it parses with
\* a compatible dimension, comes back with its own unit and magnitude.
C9_TwoStageParse ==
    Called("_validate_quantity") /\ call.value.type = "str" =>
        /\ BareNumber(call.value.text) =>
             call.result =
               Return(PyQuantity(<<call.value.text[1].n, 1>>,
                                 ReferenceUnit(call.dimension)))
        /\ /\ ~BareNumber(call.value.text)
           /\ ~Unparsable(call.value.text)
           /\ Compatible(from_string(call.value.text).ret.units, call.dimension)
           => call.result = from_string(call.value.text)

\* "1 kW**-1" for spec_power comes back in 1/kW, not in 1/MW
C9_Witness ==
    /\ Called("_validate_quantity")
    /\ call.dimension = "spec_power"
    /\ call.value.text = <<Num(1), Sym("kW"), Pow(-1)>>
    /\ call.result = Return(PyQuantity(<<1, 1>>, UnitInv(kW)))

\* C10: for every dimension and every Unit, the unit validator returns the
\* same Unit when it is dimensionally compatible and fails with
\* DimensionMismatch when it is not.
C10_UnitPassesOrMismatch ==
    Called("_validate_unit") /\ call.value.type = "Unit" =>
        IF Compatible(call.value.units, call.dimension)
        THEN call.result = Return(call.value)
        ELSE call.result.raised = DimensionMismatch

\* kW * day, which is not the reference unit, where energy is expected
C10_Witness ==
    /\ Called("_validate_unit")
    /\ call.dimension = "energy"
    /\ call.value = PyUnit(UnitMul(kW, day))
    /\ call.result = Return(PyUnit(UnitMul(kW, day)))

\* ===================================================== claims: storing
\* the field an attribute's setter writes
FieldOf(t, op) ==
    CASE op = "capacity" -> t._capacity
      [] op = "capital_cost" -> t._capital_cost
      [] op = "om_cost_fixed" -> t._om_cost_fixed
      [] op = "om_cost_variable" -> t._om_cost_variable
      [] op = "fuel_cost" -> t._fuel_cost

\* one of the five attributes was assigned and the assignment returned
StoredOk == call.fn # "none" /\ last.raised = "none"

\* C11 as stated: after a successful assignment to any of the five
\* attributes the stored quantity is exactly the quantity the quantity
\* validator returned, unit and magnitude, whatever the display units.
C11_Original == StoredOk => FieldOf(self, last.op) = call.result.ret

\* C11 amended: after a successful assignment to capital_cost,
\* om_cost_fixed, om_cost_variable or fuel_cost the stored quantity is
\* exactly the quantity the validator returned; after one to capacity it
\* is that quantity converted to the unit_power of the moment: the same
\* physical magnitude, in unit_power.
C11_StoredIsValidated ==
    StoredOk =>
        IF last.op = "capacity"
        THEN /\ self._capacity.units = self._unit_power
             /\ RMul(self._capacity.num, self._capacity.units.base_value)
                  = RMul(call.result.ret.num, call.result.ret.units.base_value)
        ELSE FieldOf(self, last.op) = call.result.ret

\* with unit_power = kW and unit_time = day, the number 1 assigned to
\* om_cost_variable is stored as 1 per MW*hr, not in the display unit
C11_Witness ==
    /\ StoredOk
    /\ last.op = "om_cost_variable"
    /\ self._unit_power = kW
    /\ self._unit_time = day
    /\ call.value = PyInt(1)
    /\ self._om_cost_variable = PyQuantity(<<1, 1>>, UnitInv(UnitMul(MW, hr)))

====
